---- MODULE Spec2Model ----
(***************************************************************************)
(* Model of the two tools of the repository:                               *)
(*   scrapeweb              (src/scrape_the_web.py)                        *)
(*   fetch_and_display_news (src/newsasker.py)                             *)
(* Python strings are sequences of one-character strings.  Positions are   *)
(* 1-based; a search that finds nothing gives 0 (Python: -1).              *)
(***************************************************************************)
EXTENDS Integers, Sequences, FiniteSets, TLC

VARIABLES
  pc,             \* where the running tool stands
  url,            \* scrapeweb: the argument
  completed_url,  \* scrapeweb: the normalized URL
  gets,           \* every requests.get issued, in order
  resp,           \* what the last requests.get brought back
  ret,            \* the decoded JSON envelope the tool returned, None before
  raised,         \* the exception that left the tool uncaught, "" when none
  endpoint,       \* news: the selected endpoint
  params,         \* news: the query parameters collected so far
  entry,          \* news: the last text entered at the page-size prompt
  rejects,        \* news: how many page-size entries were not accepted
  stdout          \* news: the lines printed

vars == <<pc, url, completed_url, gets, resp, ret, raised,
          endpoint, params, entry, rejects, stdout>>

\* ------------------------------------------------------------------ bounds
\* longest text typed after the optional scheme prefix of a scraper input
MaxLen == 3
\* longest entry typed at the page-size prompt
MaxEntryLen == 3
\* how many rejected page-size entries one run may contain
MaxRejects == 1
\* longest `articles` array the news service returns
MaxArticles == 2
\* how far past max_len the longest fetched text goes
ExtraLen == 2
\* longest text after the scheme prefix in the runs that vary the page text
FetchUrlLen == 1

\* ------------------------------------------------------- program constants
max_len == 5000
PreviewLen == 200
PageSizeMin == 1
PageSizeMax == 100

\* the absent value: Python None, a missing key, nothing returned yet
None == [none |-> TRUE]

\* --------------------------------------------------------- string helpers
\* Every intermediate value is passed on as an argument, so that no definition
\* refers twice to a value that is itself computed from others.
MinOf(S) == CHOOSE x \in S : \A y \in S : x <= y
MaxOf(S) == CHOOSE x \in S : \A y \in S : x >= y

\* the least position of a set of hits, 0 when there is none
FirstOf(hits) == IF hits = {} THEN 0 ELSE MinOf(hits)
\* the greatest position of a set of hits, 0 when there is none
LastOf(hits) == IF hits = {} THEN 0 ELSE MaxOf(hits)

\* s[:n]
Take(s, n) == SubSeq(s, 1, IF n < Len(s) THEN n ELSE Len(s))
\* s[n:]  (n counts the characters dropped)
Drop(s, n) == SubSeq(s, n + 1, Len(s))

\* c in s
Contains(s, c) == \E i \in 1..Len(s) : s[i] = c

\* s.find(c, start): first position >= start holding c, 0 when there is none
Find(s, c, start) == FirstOf({i \in start..Len(s) : s[i] = c})

\* s.rfind(c)
RFind(s, c) == LastOf({i \in 1..Len(s) : s[i] = c})

\* s.find("//"): first position of a double slash, 0 when there is none
FindSlashSlash(s) == FirstOf({i \in 1..(Len(s) - 1) : s[i] = "/" /\ s[i + 1] = "/"})

StartsWith(s, p) == Len(s) >= Len(p) /\ SubSeq(s, 1, Len(p)) = p

Whitespace == {" "}

\* the positions of s that hold no whitespace
Inked(s) == {i \in 1..Len(s) : s[i] \notin Whitespace}

\* s.lstrip()
LStrip(s) == IF Inked(s) = {} THEN <<>> ELSE SubSeq(s, MinOf(Inked(s)), Len(s))

\* s.strip()
Strip(s) == IF Inked(s) = {} THEN <<>> ELSE SubSeq(s, MinOf(Inked(s)), MaxOf(Inked(s)))

\* s.split(c): the list of segments between the occurrences of c
RECURSIVE Split(_, _)
Split(s, c) ==
  IF Contains(s, c)
    THEN <<Take(s, Find(s, c, 1) - 1)>> \o Split(Drop(s, Find(s, c, 1)), c)
    ELSE <<s>>

\* c.join(parts)
RECURSIVE Join(_, _)
Join(parts, c) ==
  IF Len(parts) = 0 THEN <<>>
  ELSE IF Len(parts) = 1 THEN parts[1]
  ELSE parts[1] \o <<c>> \o Join(Tail(parts), c)

\* s.lower() over the characters the model writes
Lower(s) == [i \in 1..Len(s) |-> IF s[i] = "A" THEN "a" ELSE s[i]]

\* ------------------------------------------------------------ urllib.parse
Letters == {"a", "f", "h", "p", "s", "t", "A"}
scheme_chars == Letters \cup {"0", "1", "+", "-", "."}

uses_params == {<<>>, <<"f","t","p">>, <<"h","t","t","p">>, <<"h","t","t","p","s">>}
uses_netloc == {<<>>, <<"f","t","p">>, <<"h","t","t","p">>, <<"h","t","t","p","s">>}

\* _splitnetloc(url, 2), given where the network location ends
splitnetloc_at(u, delim) ==
  [netloc |-> SubSeq(u, 3, delim - 1), rest |-> SubSeq(u, delim, Len(u))]

\* the position of the first of / ? # after the leading //, else one past the end
netloc_end(u, ends) == IF ends = {} THEN Len(u) + 1 ELSE MinOf(ends)

\* _splitnetloc(url, 2): the text between the leading // and the first of / ? #
splitnetloc(u) ==
  splitnetloc_at(u, netloc_end(u, {i \in 3..Len(u) : u[i] \in {"/", "?", "#"}}))

\* the ValueError("Invalid IPv6 URL") test: a bracket without its partner
unbalanced_brackets(netloc) ==
  \/ (Contains(netloc, "[") /\ ~Contains(netloc, "]"))
  \/ (Contains(netloc, "]") /\ ~Contains(netloc, "["))

\* urlsplit, last step: the query is split off at the first ?
split_query(scheme, netloc, u2, fragment, q) ==
  [err |-> unbalanced_brackets(netloc), scheme |-> scheme, netloc |-> netloc,
   path |-> IF q > 0 THEN Take(u2, q - 1) ELSE u2,
   query |-> IF q > 0 THEN Drop(u2, q) ELSE <<>>,
   fragment |-> fragment]

\* urlsplit: the fragment is split off at the first #
split_fragment(scheme, netloc, rest, h) ==
  split_query(scheme, netloc,
              IF h > 0 THEN Take(rest, h - 1) ELSE rest,
              IF h > 0 THEN Drop(rest, h) ELSE <<>>,
              Find(IF h > 0 THEN Take(rest, h - 1) ELSE rest, "?", 1))

\* urlsplit: after the network location
split_tail(scheme, sn) ==
  split_fragment(scheme, sn.netloc, sn.rest, Find(sn.rest, "#", 1))

\* urlsplit: the network location, when the rest starts with //
split_netloc(scheme, u1) ==
  split_tail(scheme,
             IF Take(u1, 2) = <<"/", "/">> THEN splitnetloc(u1)
             ELSE [netloc |-> <<>>, rest |-> u1])

\* the scheme test of urlsplit: a letter first, scheme characters up to the colon
has_scheme(u0, i) ==
  /\ i > 1
  /\ u0[1] \in Letters
  /\ \A k \in 1..(i - 1) : u0[k] \in scheme_chars

\* urlsplit: the scheme, given the position of the first colon
split_scheme(u0, i) ==
  split_netloc(IF has_scheme(u0, i) THEN Lower(Take(u0, i - 1)) ELSE <<>>,
               IF has_scheme(u0, i) THEN Drop(u0, i) ELSE u0)

\* urlsplit, after the leading whitespace is stripped
urlsplit_stripped(u0) == split_scheme(u0, Find(u0, ":", 1))

\* urlsplit(url): err is the ValueError("Invalid IPv6 URL")
urlsplit(u) == urlsplit_stripped(LStrip(u))

\* _splitparams(url), given the position of the ; that starts the parameters
splitparams_at(p, i) ==
  IF i = 0 THEN [path |-> p, params |-> <<>>]
  ELSE [path |-> Take(p, i - 1), params |-> Drop(p, i)]

\* _splitparams(url): the ;parameters of the last path segment
splitparams(p) ==
  splitparams_at(p, IF Contains(p, "/") THEN Find(p, ";", RFind(p, "/"))
                    ELSE Find(p, ";", 1))

\* urlparse, given the result of urlsplit and of the parameter split
urlparse_of(s, sp) ==
  [err |-> s.err, scheme |-> s.scheme, netloc |-> s.netloc, path |-> sp.path,
   params |-> sp.params, query |-> s.query, fragment |-> s.fragment]

\* the parameter split urlparse applies to the result of urlsplit
params_of(s) ==
  IF s.scheme \in uses_params /\ Contains(s.path, ";")
    THEN splitparams(s.path)
    ELSE [path |-> s.path, params |-> <<>>]

\* urlparse, given the result of urlsplit
urlparse_split(s) == urlparse_of(s, params_of(s))

\* urlparse(url)
urlparse(u) == urlparse_split(urlsplit(u))

\* urlunsplit: the scheme, query and fragment are put around //netloc/path
unsplit_rest(scheme, u1, query, fragment) ==
  (IF scheme # <<>> THEN scheme \o <<":">> ELSE <<>>)
    \o u1
    \o (IF query # <<>> THEN <<"?">> \o query ELSE <<>>)
    \o (IF fragment # <<>> THEN <<"#">> \o fragment ELSE <<>>)

\* urlunsplit((scheme, netloc, url, query, fragment))
urlunsplit(scheme, netloc, path, query, fragment) ==
  unsplit_rest(scheme,
    IF \/ netloc # <<>>
       \/ (scheme # <<>> /\ scheme \in uses_netloc /\ Take(path, 2) # <<"/", "/">>)
      THEN <<"/", "/">> \o netloc
           \o (IF path # <<>> /\ Take(path, 1) # <<"/">> THEN <<"/">> ELSE <<>>)
           \o path
      ELSE path,
    query, fragment)

\* urlunparse((scheme, netloc, url, params, query, fragment))
urlunparse(scheme, netloc, path, prms, query, fragment) ==
  urlunsplit(scheme, netloc,
             IF prms # <<>> THEN path \o <<";">> \o prms ELSE path,
             query, fragment)

\* urlunparse(parsed)
urlunparse_parsed(parsed) ==
  urlunparse(parsed.scheme, parsed.netloc, parsed.path, parsed.params,
             parsed.query, parsed.fragment)

\* ------------------------------------------------ scrapeweb: normalization
HttpPrefix == <<"h","t","t","p",":","/","/">>
HttpsPrefix == <<"h","t","t","p","s",":","/","/">>
FtpPrefix == <<"f","t","p",":","/","/">>
FtpsPrefix == <<"f","t","p","s",":","/","/">>
DotCom == <<".","c","o","m">>
ExampleCom == <<"e","x","a","m","p","l","e",".","c","o","m">>
HttpsScheme == <<"h","t","t","p","s">>

RecognizedPrefixes == {HttpPrefix, HttpsPrefix, FtpPrefix, FtpsPrefix}

\* variant: the prefix test matches nothing
no_recognized_scheme(s) == FALSE

\* partial_url.startswith(("http://", "https://", "ftp://", "ftps://"))
has_recognized_scheme(s) == \E p \in RecognizedPrefixes : StartsWith(s, p)

\* partial_url.split('//', 1)[-1]
after_slash_slash(s) ==
  IF FindSlashSlash(s) = 0 THEN s ELSE Drop(s, FindSlashSlash(s) + 1)

\* variant: the fallback keeps the scheme-less text without guessing .com
fallback_url_plain(domain_part) == HttpsPrefix \o domain_part

\* the fallback of a recognized scheme with no network location
fallback_url(domain_part) ==
  IF domain_part = <<>> THEN HttpsPrefix \o domain_part
  ELSE IF Contains(domain_part, ".") THEN HttpsPrefix \o domain_part
  ELSE HttpsPrefix \o domain_part \o DotCom

\* the branch of an input that starts with a recognized scheme, once parsed
scheme_branch_parsed(partial_url, parsed) ==
  IF parsed.err THEN HttpsPrefix \o partial_url
  ELSE IF parsed.netloc # <<>> THEN urlunparse_parsed(parsed)
  ELSE fallback_url(after_slash_slash(partial_url))

\* the branch of an input that starts with a recognized scheme
scheme_branch(partial_url) == scheme_branch_parsed(partial_url, urlparse(partial_url))

\* the path rebuilt from path_parts = partial_url.split('/')[1:]
path_of_parts(path_parts) ==
  IF Len(path_parts) > 0 THEN <<"/">> \o Join(path_parts, "/") ELSE <<>>

\* the params handed to urlunparse: the literal ''
params_passed(parsed) == <<>>

\* netloc = f"{first_segment}.com"
bare_host(first_segment) == first_segment \o DotCom

\* the path of the placeholder branch: parsed.path, untouched
placeholder_path(parsed) == parsed.path

\* the host and path chosen when "//" + partial_url parses to no netloc
guess_host(partial_url, parsed, first_segment) ==
  IF first_segment # <<>> /\ Contains(first_segment, ".")
    THEN [netloc |-> first_segment,
          path |-> path_of_parts(Tail(Split(partial_url, "/")))]
  ELSE IF first_segment # <<>>
    THEN [netloc |-> bare_host(first_segment),
          path |-> path_of_parts(Tail(Split(partial_url, "/")))]
  ELSE [netloc |-> ExampleCom, path |-> placeholder_path(parsed)]

\* the two path fix-ups before urlunparse
fix_path(netloc, path) ==
  IF netloc # <<>> /\ path # <<>> /\ Take(path, 1) # <<"/">> THEN <<"/">> \o path
  ELSE IF netloc # <<>> /\ path = <<>> THEN <<"/">>
  ELSE path

\* the URL built from the chosen host and path
bare_url(parsed, g) ==
  urlunparse(HttpsScheme, g.netloc, fix_path(g.netloc, g.path),
             params_passed(parsed), parsed.query, parsed.fragment)

\* the branch of an input with no recognized scheme, once "//" + input is parsed;
\* raised is the ValueError of that parse, which nothing catches
bare_branch_parsed(partial_url, parsed) ==
  IF parsed.err THEN [raised |-> TRUE, value |-> <<>>]
  ELSE [raised |-> FALSE,
        value |-> bare_url(parsed,
                    IF parsed.netloc = <<>>
                      THEN guess_host(partial_url, parsed, Split(partial_url, "/")[1])
                      ELSE [netloc |-> parsed.netloc, path |-> parsed.path])]

\* the branch of an input with no recognized scheme
bare_branch(partial_url) ==
  bare_branch_parsed(partial_url, urlparse(<<"/", "/">> \o partial_url))

\* _autocomplete_url, after partial_url = partial_url.strip()
autocomplete_stripped(partial_url) ==
  IF partial_url = <<>> THEN [raised |-> FALSE, value |-> <<>>]
  ELSE IF has_recognized_scheme(partial_url)
    THEN [raised |-> FALSE, value |-> scheme_branch(partial_url)]
  ELSE bare_branch(partial_url)

\* _autocomplete_url(partial_url)
autocomplete_url(u) == autocomplete_stripped(Strip(u))

\* ------------------------------------------------------ scrapeweb: the call
UrlChars == {"a", ".", "/", "?", "#", ";", "[", " "}

\* the arguments tried: an optional recognized scheme, then up to n characters
Inputs(n) ==
  {p \o b : p \in {<<>>} \cup RecognizedPrefixes,
            b \in UNION {[1..m -> UrlChars] : m \in 0..n}}

\* not (not parsed_final_url.scheme or not parsed_final_url.netloc)
valid_url(parsed) == parsed.scheme # <<>> /\ parsed.netloc # <<>>

\* the envelope of the post-normalization validation, None when the URL passes
validation_error_parsed(u, completed, parsed_final_url) ==
  IF parsed_final_url.err
    THEN [status |-> "error", original_url |-> u, attempted_url |-> completed,
          message |-> "The constructed URL is invalid and cannot be parsed."]
  ELSE IF ~valid_url(parsed_final_url)
    THEN [status |-> "error", original_url |-> u, attempted_url |-> completed,
          message |-> "Failed to construct a valid, absolute URL. Scheme or domain is missing."]
  ELSE None

\* try: parsed_final_url = urlparse(completed_url) ... except ValueError
validation_error(u, completed) ==
  validation_error_parsed(u, completed, urlparse(completed))

\* scrapeweb(url) up to the network call, given the outcome c of _autocomplete_url
\* and the outcome e of the validation
ScrapeValidated(u, c, e) ==
  /\ pc = "idle"
  /\ url' = u
  /\ IF u = <<>> \/ Strip(u) = <<>>
       THEN /\ ret' = [status |-> "error", message |-> "URL cannot be empty."]
            /\ pc' = "scrape_done"
            /\ UNCHANGED <<completed_url, raised>>
     ELSE IF c.raised
       THEN /\ raised' = "ValueError"
            /\ pc' = "scrape_done"
            /\ UNCHANGED <<completed_url, ret>>
     ELSE /\ completed_url' = c.value
          /\ ret' = e
          /\ pc' = IF e = None THEN "scrape_get" ELSE "scrape_done"
          /\ UNCHANGED raised
  /\ UNCHANGED <<gets, resp, endpoint, params, entry, rejects, stdout>>

\* scrapeweb(url) up to the network call, given the outcome of _autocomplete_url
ScrapeCompleted(u, c) == ScrapeValidated(u, c, validation_error(u, c.value))

\* scrapeweb(url) up to the network call
ScrapeCall(u) == ScrapeCompleted(u, autocomplete_url(u))

\* ----------------------------------------------------- scrapeweb: the fetch
TruncationMarker ==
  <<"\n", ".", ".", ".", " ", "(", "c", "o", "n", "t", "e", "n", "t", " ",
    "t", "r", "u", "n", "c", "a", "t", "e", "d", ")">>
Ellipsis == <<".", ".", ".">>

TextChars == <<"x", "y", "z", "\n", "w", "v", "u">>

\* a cleaned page text of n characters (text_content after the re.sub and strip)
Text(n, k) == [i \in 1..n |-> TextChars[((i * k) % 7) + 1]]

TextLens == {0, PreviewLen, PreviewLen + 1, max_len, max_len + 1, max_len + ExtraLen}

\* the errors requests.get, raise_for_status and the HTML parse can raise
ScrapeErrors == {"HTTPError", "ConnectionError", "Timeout", "RequestException", "Exception"}

\* the short texts, of the runs that vary the URL
ShortLens == {0, ExtraLen}

\* what one GET can bring back, with page texts of the lengths given
ScrapeResponses(lens) ==
  {[kind |-> k, text |-> <<>>] : k \in ScrapeErrors}
    \cup {[kind |-> "ok", text |-> Text(n, k)] : n \in lens, k \in 1..2}

\* variant: the cut keeps one character more
truncate_off_by_one(text_content) ==
  IF Len(text_content) > max_len
    THEN Take(text_content, max_len + 1) \o TruncationMarker
    ELSE text_content

\* if len(text_content) > max_len: text_content = text_content[:max_len] + marker
truncate(text_content) ==
  IF Len(text_content) > max_len
    THEN Take(text_content, max_len) \o TruncationMarker
    ELSE text_content

\* text_content[:200] + ("..." if len(text_content) > 200 else "")
preview(text_content) ==
  Take(text_content, PreviewLen)
    \o (IF Len(text_content) > PreviewLen THEN Ellipsis ELSE <<>>)

\* the prefix of the message of each except clause
error_prefix(kind) ==
  CASE kind = "HTTPError" -> "HTTP error occurred: "
    [] kind = "ConnectionError" -> "Connection error: "
    [] kind = "Timeout" -> "Request timed out: "
    [] kind = "RequestException" -> "Error during web request: "
    [] OTHER -> "An unexpected error occurred: "

\* the envelope scrapeweb returns for what the GET brought back
scrape_result(u, completed, r) ==
  IF r.kind = "ok"
    THEN [status |-> "success", original_url |-> u, scraped_url |-> completed,
          content_preview |-> preview(truncate(r.text)),
          full_content |-> truncate(r.text)]
    ELSE [status |-> "error", original_url |-> u, scraped_url |-> completed,
          message |-> <<error_prefix(r.kind), r.kind>>]

\* scrapeweb from requests.get to the return
ScrapeGet(r) ==
  /\ pc = "scrape_get"
  /\ gets' = Append(gets, [url |-> completed_url])
  /\ resp' = r
  /\ ret' = scrape_result(url, completed_url, r)
  /\ pc' = "scrape_done"
  /\ UNCHANGED <<url, completed_url, raised, endpoint, params, entry, rejects, stdout>>

Init ==
  /\ pc = "idle"
  /\ url = <<>>
  /\ completed_url = <<>>
  /\ gets = <<>>
  /\ resp = None
  /\ ret = None
  /\ raised = ""
  /\ endpoint = ""
  /\ params = <<>>
  /\ entry = <<>>
  /\ rejects = 0
  /\ stdout = <<>>

\* scrapeweb over every URL of the bound, with short pages
ScrapeInputs == Inputs(MaxLen)
ShortResponses == ScrapeResponses(ShortLens)

NextScrape ==
  \/ (pc = "idle" /\ \E u \in ScrapeInputs : ScrapeCall(u))
  \/ (pc = "scrape_get" /\ \E r \in ShortResponses : ScrapeGet(r))

SpecScrape == Init /\ [][NextScrape]_vars

\* scrapeweb over the short URLs, with pages around the two length limits
FetchInputs == Inputs(FetchUrlLen)
LongResponses == ScrapeResponses(TextLens)

NextFetch ==
  \/ (pc = "idle" /\ \E u \in FetchInputs : ScrapeCall(u))
  \/ (pc = "scrape_get" /\ \E r \in LongResponses : ScrapeGet(r))

SpecFetch == Init /\ [][NextFetch]_vars

\* ------------------------------------------- fetch_and_display_news: prompts
Endpoints == {"top-headlines", "everything"}
ApiKeys == {"key"}
Countries == {"", "us"}
Categories == {"", "sports"}
Queries == {"", "bitcoin"}
FromDates == {"", "2024-01-01"}

NewsUnchanged == <<url, completed_url, gets, resp, ret, raised, stdout>>

\* inquirer.select(choices=["top-headlines", "everything"]).execute()
SelectEndpoint(e) ==
  /\ pc = "idle"
  /\ endpoint' = e
  /\ pc' = "api_key"
  /\ UNCHANGED <<params, entry, rejects>>
  /\ UNCHANGED NewsUnchanged

\* api_key = inquirer.text(...).execute(); params = {"apiKey": api_key}
EnterApiKey(k) ==
  /\ pc = "api_key"
  /\ params' = ("apiKey" :> k)
  /\ pc' = IF endpoint = "top-headlines" THEN "country" ELSE "query"
  /\ UNCHANGED <<endpoint, entry, rejects>>
  /\ UNCHANGED NewsUnchanged

\* if value: params[key] = value
with_optional(p, key, value) == IF value # "" THEN (key :> value) @@ p ELSE p

\* params["q"] = query
with_query(p, query) == ("q" :> query) @@ p

EnterCountry(country) ==
  /\ pc = "country"
  /\ params' = with_optional(params, "country", country)
  /\ pc' = "category"
  /\ UNCHANGED <<endpoint, entry, rejects>>
  /\ UNCHANGED NewsUnchanged

EnterCategory(category) ==
  /\ pc = "category"
  /\ params' = with_optional(params, "category", category)
  /\ pc' = "page_size"
  /\ UNCHANGED <<endpoint, entry, rejects>>
  /\ UNCHANGED NewsUnchanged

EnterQuery(query) ==
  /\ pc = "query"
  /\ params' = with_query(params, query)
  /\ pc' = "from_date"
  /\ UNCHANGED <<endpoint, entry, rejects>>
  /\ UNCHANGED NewsUnchanged

EnterFromDate(from_date) ==
  /\ pc = "from_date"
  /\ params' = with_optional(params, "from", from_date)
  /\ pc' = "page_size"
  /\ UNCHANGED <<endpoint, entry, rejects>>
  /\ UNCHANGED NewsUnchanged

\* ----------------------------------- fetch_and_display_news: the page size
\* "^2" stands for the one character U+00B2 (superscript two): str.isdigit()
\* takes it for a digit and int() does not
EntryChars == {"0", "1", "-", "a", "^2"}
DecimalChars == {"0", "1"}
DigitChars == DecimalChars \cup {"^2"}

Entries(n) == UNION {[1..m -> EntryChars] : m \in 0..n}

\* val.isdigit()
isdigit(val) == Len(val) > 0 /\ \A i \in 1..Len(val) : val[i] \in DigitChars

\* whether int(val) raises ValueError, for a val that passed isdigit()
int_raises(val) == \E i \in 1..Len(val) : val[i] \notin DecimalChars

digit_value(c) == IF c = "1" THEN 1 ELSE 0

\* int(val), for a val of decimal digits
RECURSIVE int_of(_)
int_of(val) ==
  IF Len(val) = 0 THEN 0
  ELSE 10 * int_of(SubSeq(val, 1, Len(val) - 1)) + digit_value(val[Len(val)])

\* variant: values above the maximum are let through
in_range_no_max(n) == PageSizeMin <= n

\* 1 <= int(val) <= 100
in_range(n) == PageSizeMin <= n /\ n <= PageSizeMax

\* validate=lambda val: val.isdigit() and 1 <= int(val) <= 100
validate(val) ==
  IF ~isdigit(val) THEN "reject"
  ELSE IF int_raises(val) THEN "ValueError"
  ELSE IF in_range(int_of(val)) THEN "accept"
  ELSE "reject"

\* int(page_size)
page_size_value(page_size) == int_of(page_size)

\* the page-size prompt, given the verdict of the validator on the entry: an
\* entry the validator does not return True for is not taken and the prompt
\* stays open
PageSizeEntered(val, verdict) ==
  /\ pc = "page_size"
  /\ entry' = val
  /\ IF verdict = "accept"
       THEN /\ params' = ("pageSize" :> page_size_value(val)) @@ params
            /\ pc' = "news_get"
            /\ UNCHANGED rejects
       ELSE /\ rejects < MaxRejects
            /\ rejects' = rejects + 1
            /\ UNCHANGED <<params, pc>>
  /\ UNCHANGED endpoint
  /\ UNCHANGED NewsUnchanged

EnterPageSize(val) == PageSizeEntered(val, validate(val))

\* ------------------------------------- fetch_and_display_news: the request
\* JSON values, tagged by type; the value of an object is a function of its keys
Null == [t |-> "null"]
Str(x) == [t |-> "str", v |-> x]
Num(n) == [t |-> "num", v |-> n]
Arr(items) == [t |-> "arr", v |-> items]
Obj(f) == [t |-> "obj", v |-> f]

NoKeys == [k \in {} |-> Null]

\* a key with its value, or no key at all when the value is absent
field(key, value, present) == IF present THEN (key :> value) ELSE NoKeys

\* an element of the articles array that is an object
article(has_title, has_url) ==
  Obj(field("title", Str("T"), has_title) @@ field("url", Str("U"), has_url))

\* the elements an articles array is made of: objects and non-objects
Elems == {article(TRUE, TRUE), article(FALSE, FALSE), Str("s"), Null}

\* what the articles key can hold: an array, or something that is no array
ArticlesVals ==
  {Arr(a) : a \in UNION {[1..n -> Elems] : n \in 0..MaxArticles}}
    \cup {Null, Str(""), Str("s"), Num(1), Obj(NoKeys), Obj("k" :> Null)}

Statuses == {"ok", "error"}
Messages == {"m"}

\* the bodies that parse to a JSON object
ObjectBodies ==
  {Obj(st @@ ms @@ ar) :
     st \in {NoKeys} \cup {("status" :> Str(x)) : x \in Statuses},
     ms \in {NoKeys} \cup {("message" :> Str(x)) : x \in Messages},
     ar \in {NoKeys} \cup {("articles" :> x) : x \in ArticlesVals}}

\* the bodies that parse to something else
OtherBodies == {Arr(<<>>), Str("s"), Num(1), Null}

\* what requests.get, raise_for_status and resp.json() can raise
NewsErrors == {"ConnectionError", "HTTPError", "JSONDecodeError"}

NewsResponses ==
  {[kind |-> k, data |-> Null] : k \in NewsErrors}
    \cup {[kind |-> "ok", data |-> d] : d \in ObjectBodies \cup OtherBodies}

\* d.get(key): None for a missing key
get(d, key) == IF key \in DOMAIN d.v THEN d.v[key] ELSE Null

\* data.get("articles", []): the default only for a missing key
get_articles(d) == IF "articles" \in DOMAIN d.v THEN d.v["articles"] ELSE Arr(<<>>)

\* the text an f-string puts for a string or for None
py_str(x) == IF x.t = "null" THEN "None" ELSE x.v

\* what `for art in articles` walks over: the elements of an array, the
\* characters of a string (the strings here have at most one), the keys of an
\* object (the objects here have at most one); exc is the TypeError of a value
\* that cannot be iterated
iterate(x) ==
  CASE x.t = "arr" -> [exc |-> "", items |-> x.v]
    [] x.t = "str" -> [exc |-> "", items |-> IF x.v = "" THEN <<>> ELSE <<Str(x.v)>>]
    [] x.t = "obj" -> [exc |-> "",
                       items |-> IF DOMAIN x.v = {} THEN <<>>
                                 ELSE <<Str(CHOOSE k \in DOMAIN x.v : TRUE)>>]
    [] OTHER -> [exc |-> "TypeError", items |-> <<>>]

\* {"title": art.get("title"), "url": art.get("url")} for art in articles
project(items) ==
  [i \in 1..Len(items) |-> [title |-> get(items[i], "title"), url |-> get(items[i], "url")]]

\* the three lines printed for each of the results
printed(results) ==
  [k \in 1..(3 * Len(results)) |->
     CASE k % 3 = 1 -> [line |-> "title", idx |-> (k + 2) \div 3,
                        text |-> py_str(results[(k + 2) \div 3].title)]
       [] k % 3 = 2 -> [line |-> "url", idx |-> (k + 2) \div 3,
                        text |-> py_str(results[(k + 2) \div 3].url)]
       [] OTHER -> [line |-> "blank", idx |-> (k + 2) \div 3, text |-> ""]]

\* variant: the listing is printed before the status is looked at
status_error_after_print(data, status) ==
  [ret |-> [status |-> "error",
            message |-> <<"API returned status '", py_str(status), "': ",
                          py_str(get(data, "message"))>>],
   raised |-> "",
   stdout |-> printed(project(SelectSeq(iterate(get_articles(data)).items,
                                        LAMBDA a : a.t = "obj")))]

\* the return of `if status != "ok"`
status_error(data, status) ==
  [ret |-> [status |-> "error",
            message |-> <<"API returned status '", py_str(status), "': ",
                          py_str(get(data, "message"))>>],
   raised |-> "", stdout |-> <<>>]

\* steps 4 and 5 once the articles are known to be iterable
listing(e, p, items) ==
  IF \E i \in 1..Len(items) : items[i].t # "obj"
    THEN [ret |-> None, raised |-> "AttributeError", stdout |-> <<>>]
    ELSE [ret |-> [status |-> "success", endpoint |-> e, params |-> p,
                   articles |-> project(items)],
          raised |-> "", stdout |-> printed(project(items))]

\* steps 4 and 5 on a body whose status is "ok"
articles_outcome(e, p, it) ==
  IF it.exc # "" THEN [ret |-> None, raised |-> it.exc, stdout |-> <<>>]
  ELSE listing(e, p, it.items)

\* steps 4 and 5 on a body that is an object
object_outcome(e, p, data, status) ==
  IF status # Str("ok") THEN status_error(data, status)
  ELSE articles_outcome(e, p, iterate(get_articles(data)))

\* what fetch_and_display_news does with what the GET brought back: the envelope
\* returned, the exception left uncaught, the lines printed
news_outcome(e, p, r) ==
  IF r.kind # "ok"
    THEN [ret |-> [status |-> "error", message |-> <<"API request failed: ", r.kind>>],
          raised |-> "", stdout |-> <<>>]
  ELSE IF r.data.t # "obj"
    THEN [ret |-> None, raised |-> "AttributeError", stdout |-> <<>>]
  ELSE object_outcome(e, p, r.data, get(r.data, "status"))

\* fetch_and_display_news from requests.get to the return, given the outcome
NewsGot(r, o) ==
  /\ pc = "news_get"
  /\ gets' = Append(gets, [url |-> "https://newsapi.org/v2/" \o endpoint, params |-> params])
  /\ resp' = r
  /\ ret' = o.ret
  /\ raised' = o.raised
  /\ stdout' = stdout \o o.stdout
  /\ pc' = "news_done"
  /\ UNCHANGED <<url, completed_url, endpoint, params, entry, rejects>>

NewsGet(r) == NewsGot(r, news_outcome(endpoint, params, r))

PageSizeEntries == Entries(MaxEntryLen)

NextNews ==
  \/ \E e \in Endpoints : SelectEndpoint(e)
  \/ \E k \in ApiKeys : EnterApiKey(k)
  \/ \E c \in Countries : EnterCountry(c)
  \/ \E c \in Categories : EnterCategory(c)
  \/ \E q \in Queries : EnterQuery(q)
  \/ \E d \in FromDates : EnterFromDate(d)
  \/ (pc = "page_size" /\ \E val \in PageSizeEntries : EnterPageSize(val))
  \/ (pc = "news_get" /\ \E r \in NewsResponses : NewsGet(r))

SpecNews == Init /\ [][NextNews]_vars

\* both tools over the bounds of SpecScrape and SpecNews
Next == NextScrape \/ NextNews

Spec == Init /\ [][Next]_vars

\* ================================================================ claims
ScrapeEntered == pc \in {"scrape_get", "scrape_done"}

\* the four scheme prefixes, as the specification lists them
SchemePrefixes ==
  {<<"h","t","t","p",":","/","/">>, <<"h","t","t","p","s",":","/","/">>,
   <<"f","t","p",":","/","/">>, <<"f","t","p","s",":","/","/">>}

StartsWithScheme(s) ==
  \E p \in SchemePrefixes : Len(s) >= Len(p) /\ SubSeq(s, 1, Len(p)) = p

\* the text before the first ? or #
PathPart(s) ==
  LET stops == {i \in 1..Len(s) : s[i] \in {"?", "#"}}
  IN IF stops = {} THEN s ELSE SubSeq(s, 1, MinOf(stops) - 1)

\* the text before the first /
FirstSegment(s) ==
  LET stops == {i \in 1..Len(s) : s[i] = "/"}
  IN IF stops = {} THEN s ELSE SubSeq(s, 1, MinOf(stops) - 1)

HasDot(s) == \E i \in 1..Len(s) : s[i] = "."

\* C1: a scrapeweb call that issued no GET returned an Error envelope (and no
\* exception left it); after a failed post-normalization validation the
\* envelope echoes the original and the attempted URL.
C1_NoGetMeansErrorEnvelope ==
  (pc = "scrape_done" /\ gets = <<>>) =>
     /\ raised = ""
     /\ ret # None
     /\ ret.status = "error"
     /\ (Strip(url) # <<>> =>
           ret.original_url = url /\ ret.attempted_url = completed_url)

\* a name written without any URL punctuation or whitespace
IsPlainName(s) ==
  /\ Len(s) > 0
  /\ \A i \in 1..Len(s) : s[i] \notin {".", "/", "?", "#", ";", ":", "[", "]", " "}

\* C2: an input with no recognized scheme whose first /-segment is non-empty and
\* has no dot (a plain name such as "openai") is normalized to scheme https and
\* host <segment>.com.
C2_BareNameGetsDotCom ==
  (/\ ScrapeEntered
   /\ raised = ""
   /\ ~StartsWithScheme(Strip(url))
   /\ IsPlainName(FirstSegment(Strip(url)))) =>
     /\ urlparse(completed_url).scheme = <<"h","t","t","p","s">>
     /\ urlparse(completed_url).netloc
          = FirstSegment(Strip(url)) \o <<".","c","o","m">>

\* C3: no GET to /v2/everything carries an empty q parameter.
C3_NoEmptyKeywordSent ==
  \A i \in 1..Len(gets) :
     gets[i].url = "https://newsapi.org/v2/everything" =>
        ("q" \in DOMAIN gets[i].params /\ gets[i].params["q"] # "")

\* C4: every finished invocation of either tool returned a Result Envelope with
\* status success or error, and no exception left the function.
C4_AlwaysAnEnvelope ==
  pc \in {"scrape_done", "news_done"} =>
     /\ raised = ""
     /\ ret # None
     /\ ret.status \in {"success", "error"}

MarkerText ==
  <<".", ".", ".", " ", "(", "c", "o", "n", "t", "e", "n", "t", " ",
    "t", "r", "u", "n", "c", "a", "t", "e", "d", ")">>

LongPageFetched ==
  pc = "scrape_done" /\ resp # None /\ resp.kind = "ok" /\ Len(resp.text) > 5000

\* C5 as stated: for a fetched text of more than 5000 characters, full_content is
\* its first 5000 characters followed directly by "... (content truncated)" and
\* content_preview is its first 200 characters followed by "...".
C5_MarkerDirectlyAfterCut ==
  LongPageFetched =>
     /\ ret.status = "success"
     /\ ret.full_content = SubSeq(resp.text, 1, 5000) \o MarkerText
     /\ ret.content_preview = SubSeq(resp.text, 1, 200) \o <<".", ".", ".">>

\* C5 amended: for a fetched text of more than 5000 characters, full_content is
\* its first 5000 characters, a newline, then "... (content truncated)", and
\* content_preview is its first 200 characters followed by "...".
C5_MarkerOnNewLine ==
  LongPageFetched =>
     /\ ret.status = "success"
     /\ ret.full_content = SubSeq(resp.text, 1, 5000) \o <<"\n">> \o MarkerText
     /\ ret.content_preview = SubSeq(resp.text, 1, 200) \o <<".", ".", ".">>

C5_Witness ==
  /\ LongPageFetched
  /\ ret.status = "success"
  /\ Len(ret.full_content) = 5024
  /\ Len(ret.content_preview) = 203

\* the text of a field of the remote body as the message shows it
RemoteText(key) ==
  IF key \in DOMAIN resp.data.v THEN resp.data.v[key].v ELSE "None"

RemoteStatusNotOk ==
  /\ pc = "news_done"
  /\ resp.kind = "ok"
  /\ resp.data.t = "obj"
  /\ ("status" \notin DOMAIN resp.data.v \/ resp.data.v["status"].v # "ok")

\* C6: for either endpoint, when the parsed response is an object whose status
\* is not "ok" (or is absent), the tool returns an Error envelope whose message
\* holds the remote status and the remote message, and nothing is printed.
C6_RemoteErrorSurfaced ==
  RemoteStatusNotOk =>
     /\ raised = ""
     /\ ret.status = "error"
     /\ \E i \in 1..Len(ret.message) : ret.message[i] = RemoteText("status")
     /\ \E i \in 1..Len(ret.message) : ret.message[i] = RemoteText("message")
     /\ stdout = <<>>

C6_Witness ==
  /\ RemoteStatusNotOk
  /\ endpoint = "everything"
  /\ RemoteText("status") = "error"
  /\ RemoteText("message") = "m"
  /\ "articles" \in DOMAIN resp.data.v
  /\ resp.data.v["articles"] = Arr(<<article(TRUE, TRUE)>>)
  /\ ret.status = "error"

AbsoluteInput ==
  /\ ScrapeEntered
  /\ StartsWithScheme(Strip(url))
  /\ ~urlparse(Strip(url)).err
  /\ urlparse(Strip(url)).netloc # <<>>

\* C7 as stated: for an input that starts with a recognized scheme and parses to
\* a non-empty network location, normalizing the normalized URL gives it back.
C7_NormalizeIdempotent ==
  AbsoluteInput =>
     /\ raised = ""
     /\ autocomplete_url(completed_url) = [raised |-> FALSE, value |-> completed_url]

EndsInWhitespace(s) == Len(s) > 0 /\ s[Len(s)] = " "

\* C7 amended: for such an input whose normalized URL does not end in whitespace,
\* normalizing the normalized URL gives it back; and the normalized URL of such
\* an input ends in whitespace only if the input has whitespace inside.
C7_IdempotentUnlessTrailingSpace ==
  /\ (AbsoluteInput /\ ~EndsInWhitespace(completed_url)) =>
        /\ raised = ""
        /\ autocomplete_url(completed_url) = [raised |-> FALSE, value |-> completed_url]
  /\ (AbsoluteInput /\ EndsInWhitespace(completed_url)) =>
        \E i \in 1..Len(Strip(url)) : Strip(url)[i] = " "

\* an absolute input that normalization rewrites (an empty query is dropped)
C7_Witness ==
  /\ AbsoluteInput
  /\ ~EndsInWhitespace(completed_url)
  /\ completed_url # Strip(url)
  /\ autocomplete_url(completed_url).value = completed_url

PathOnlyInput ==
  ScrapeEntered /\ Len(Strip(url)) > 0 /\ Strip(url)[1] = "/"

\* C8 without the ;parameters: the path is kept when the input has no ;
C8_PathKeptWithoutParams ==
  (PathOnlyInput /\ \A i \in 1..Len(url) : url[i] # ";") =>
     /\ raised = ""
     /\ urlsplit(completed_url).scheme = <<"h","t","t","p","s">>
     /\ urlsplit(completed_url).netloc = <<"e","x","a","m","p","l","e",".","c","o","m">>
     /\ urlsplit(completed_url).path = PathPart(Strip(url))

\* C8: an input that begins with "/" is normalized, without failing, to scheme
\* https, host example.com and the path of the input unchanged.
C8_PathOnlyKeepsPath ==
  PathOnlyInput =>
     /\ raised = ""
     /\ urlsplit(completed_url).scheme = <<"h","t","t","p","s">>
     /\ urlsplit(completed_url).netloc = <<"e","x","a","m","p","l","e",".","c","o","m">>
     /\ urlsplit(completed_url).path = PathPart(Strip(url))

AsciiDigits == <<"0", "1", "2", "3", "4", "5", "6", "7", "8", "9">>

IsIntString(s) ==
  Len(s) > 0 /\ \A i \in 1..Len(s) : \E d \in 1..10 : s[i] = AsciiDigits[d]

DigitOf(c) == (CHOOSE d \in 1..10 : AsciiDigits[d] = c) - 1

RECURSIVE Pow10(_)
Pow10(n) == IF n = 0 THEN 1 ELSE 10 * Pow10(n - 1)

RECURSIVE SumDigits(_, _)
SumDigits(s, i) ==
  IF i > Len(s) THEN 0
  ELSE DigitOf(s[i]) * Pow10(Len(s) - i) + SumDigits(s, i + 1)

\* an entry is valid when it is a string of decimal digits with a value in 1..100
ValidPageSize(s) == IsIntString(s) /\ SumDigits(s, 1) \in 1..100

\* C9: the page-size prompt accepts an entry exactly when it is a base-10
\* integer string with a value in [1,100]: an entry that got past the prompt is
\* valid and the pageSize kept and sent is its value; an entry the prompt did
\* not take is not valid, and leaves no pageSize behind.
C9_PageSizeValidated ==
  /\ pc \in {"news_get", "news_done"} =>
        /\ ValidPageSize(entry)
        /\ params["pageSize"] = SumDigits(entry, 1)
        /\ \A i \in 1..Len(gets) : gets[i].params["pageSize"] = SumDigits(entry, 1)
  /\ pc = "page_size" =>
        /\ ~ValidPageSize(entry)
        /\ "pageSize" \notin DOMAIN params
        /\ gets = <<>>

\* the upper limit itself, entered after a rejected entry, and sent
C9_Witness ==
  /\ pc = "news_done"
  /\ rejects > 0
  /\ entry = <<"1", "0", "0">>
  /\ Len(gets) = 1
  /\ gets[1].params["pageSize"] = 100

SchemeWithoutHost ==
  /\ ScrapeEntered
  /\ StartsWithScheme(Strip(url))
  /\ ~urlparse(Strip(url)).err
  /\ urlparse(Strip(url)).netloc = <<>>

\* everything after the first "//" of the input
Remainder(s) ==
  LET at == {i \in 1..(Len(s) - 1) : s[i] = "/" /\ s[i + 1] = "/"}
  IN SubSeq(s, MinOf(at) + 2, Len(s))

\* the remainder, with .com appended when it has no dot
GuessedHost(s) ==
  IF HasDot(Remainder(s)) THEN Remainder(s) ELSE Remainder(s) \o <<".","c","o","m">>

\* C10 as stated: for an input with a recognized scheme and an empty network
\* location, the normalized URL has scheme https and the remainder (with .com
\* when it has no dot) as its non-empty host, and passes the validation.
C10_FallbackGivesValidUrl ==
  SchemeWithoutHost =>
     /\ urlparse(completed_url).scheme = <<"h","t","t","p","s">>
     /\ urlparse(completed_url).netloc = GuessedHost(Strip(url))
     /\ urlparse(completed_url).netloc # <<>>
     /\ pc = "scrape_get" \/ gets # <<>>

\* C10 amended: for such an input the normalized URL is the text "https://"
\* followed by the remainder, with ".com" appended when the remainder is
\* non-empty and has no dot; it re-parses with scheme https and an empty network
\* location, so the validation rejects it: an Error envelope echoing the original
\* and the attempted URL is returned and no GET is issued.
C10_FallbackIsRejected ==
  SchemeWithoutHost =>
     /\ completed_url = <<"h","t","t","p","s",":","/","/">>
                          \o (IF Remainder(Strip(url)) = <<>> THEN <<>>
                              ELSE GuessedHost(Strip(url)))
     /\ urlparse(completed_url).scheme = <<"h","t","t","p","s">>
     /\ urlparse(completed_url).netloc = <<>>
     /\ pc = "scrape_done"
     /\ gets = <<>>
     /\ raised = ""
     /\ ret.status = "error"
     /\ ret.original_url = url
     /\ ret.attempted_url = completed_url

\* http:///a becomes https:///a.com, which has no host
C10_Witness ==
  /\ SchemeWithoutHost
  /\ Strip(url) = <<"h","t","t","p",":","/","/","/","a">>
  /\ completed_url = <<"h","t","t","p","s",":","/","/","/","a",".","c","o","m">>
  /\ ret.status = "error"

====
